---- MODULE Spec2Model ----
(***************************************************************************)
(* A model of utils.py of dreamer-pytorch: the gradient-flag scopes        *)
(* FreezeParameters / ActivateParameters, the lambda-return estimator      *)
(* lambda_return and the imagination rollout imagine_ahead.                *)
(*                                                                         *)
(* Three specifications share the module's variables:                      *)
(*   SpecScope    the guard objects over a fixed set of parameters         *)
(*   SpecLambda   one call of lambda_return, statement by statement        *)
(*   SpecImagine  one call of imagine_ahead, statement by statement        *)
(* Each leaves the variables of the other two at their idle values.        *)
(***************************************************************************)
EXTENDS Integers, Sequences, FiniteSets, TLC

VARIABLES
    requires_grad,  \* Parameter -> BOOLEAN: param.requires_grad
    guards,         \* the guard objects constructed so far, in order
    open,           \* the scopes entered and not yet exited, innermost last
    event,          \* history: the operation that produced this state
    nsets,          \* history: number of direct flag assignments so far
    lr,             \* the frame of a lambda_return call
    im              \* the frame of an imagine_ahead call

vars == <<requires_grad, guards, open, event, nsets, lr, im>>

\* ---------------------------------------------------------------- bounds
MaxGuards == 2
MaxDepth == 2
MaxSets == 1
MaxN == 3
MaxT == 4

\* ------------------------------------------------------------- sequences
Range(s) == {s[i] : i \in DOMAIN s}

RECURSIVE Reverse(_)
Reverse(s) == IF s = <<>> THEN <<>> ELSE Append(Reverse(Tail(s)), Head(s))

\* s[k:] of Python for 0 <= k: the entries from 0-based index k on.
From(s, k) == IF k >= Len(s) THEN <<>> ELSE SubSeq(s, k + 1, Len(s))

\* =========================================================== the scopes
\* Two modules; m1 owns parameters 1 and 2, m2 owns parameter 3.
ModuleNames == {"m1", "m2"}
Parameters == {1, 2, 3}

\* module.parameters(): the module's parameters in their stable order.
parameters(m) == IF m = "m1" THEN <<1, 2>> ELSE <<3>>

\* The iterables of modules a guard is built over.
ModuleLists == {<<"m1">>, <<"m2">>, <<"m1", "m2">>, <<"m2", "m1">>}

RECURSIVE get_parameters(_)
get_parameters(modules) ==
    IF modules = <<>> THEN <<>>
    ELSE parameters(Head(modules)) \o get_parameters(Tail(modules))

\* [p.requires_grad for p in get_parameters(self.modules)]
snapshot(flags, modules) ==
    LET ps == get_parameters(modules)
    IN [i \in 1..Len(ps) |-> flags[ps[i]]]

\* The flag FreezeParameters / ActivateParameters forces in __enter__.
target(kind) == kind = "Activate"

\* for param in get_parameters(self.modules): param.requires_grad = v
RECURSIVE force(_, _, _)
force(flags, ps, v) ==
    IF ps = <<>> THEN flags
    ELSE force([flags EXCEPT ![Head(ps)] = v], Tail(ps), v)

\* for i, param in enumerate(get_parameters(self.modules)):
\*     param.requires_grad = self.param_states[i]
RECURSIVE restore(_, _, _)
restore(flags, ps, states) ==
    IF ps = <<>> THEN flags
    ELSE restore([flags EXCEPT ![Head(ps)] = Head(states)], Tail(ps), Tail(states))

NoEvent == [op |-> "none"]

\* __init__: keep the modules and snapshot the flags as they are now.
Construct(kind, modules) ==
    /\ Len(guards) < MaxGuards
    /\ guards' = Append(guards, [kind |-> kind, modules |-> modules,
                                 param_states |-> snapshot(requires_grad, modules)])
    /\ event' = [op |-> "construct", g |-> Len(guards) + 1]
    /\ UNCHANGED <<requires_grad, open, nsets, lr, im>>

\* __enter__: force every flag of the guard's parameters to the target.
\* A guard object may be entered any number of times, also while it is open
\* (re: the history of whether it was).
Enter(g) ==
    /\ g \in DOMAIN guards
    /\ Len(open) < MaxDepth
    /\ requires_grad' = force(requires_grad, get_parameters(guards[g].modules),
                              target(guards[g].kind))
    /\ open' = Append(open, [g |-> g, pre |-> requires_grad, nested |-> FALSE,
                             re |-> \E i \in DOMAIN open : open[i].g = g])
    /\ event' = [op |-> "enter", g |-> g]
    /\ UNCHANGED <<guards, nsets, lr, im>>

\* __exit__(exc_type, exc_val, exc_tb): the with statement leaves the innermost
\* open scope, with exc telling whether the body raised. The flags are written
\* back from the stored list; None is returned, so an error propagates.
Exit(exc) ==
    /\ open /= <<>>
    /\ LET top == open[Len(open)]
           rest == SubSeq(open, 1, Len(open) - 1)
       IN /\ requires_grad' = restore(requires_grad,
                                      get_parameters(guards[top.g].modules),
                                      guards[top.g].param_states)
          /\ open' = IF rest = <<>> THEN rest
                     ELSE [rest EXCEPT ![Len(rest)].nested = TRUE]
          /\ event' = [op |-> "exit", g |-> top.g, exc |-> exc, pre |-> top.pre,
                       nested |-> top.nested, re |-> top.re]
    /\ UNCHANGED <<guards, nsets, lr, im>>

\* The code between scopes assigns param.requires_grad directly.
SetFlag(p, v) ==
    /\ open = <<>>
    /\ nsets < MaxSets
    /\ requires_grad[p] /= v
    /\ requires_grad' = [requires_grad EXCEPT ![p] = v]
    /\ nsets' = nsets + 1
    /\ event' = [op |-> "set", p |-> p]
    /\ UNCHANGED <<guards, open, lr, im>>

IdleLambda == [pc |-> "idle"]
IdleImagine == [pc |-> "idle"]

InitScope ==
    /\ requires_grad \in [Parameters -> BOOLEAN]
    /\ guards = <<>>
    /\ open = <<>>
    /\ event = NoEvent
    /\ nsets = 0
    /\ lr = IdleLambda
    /\ im = IdleImagine

NextScope ==
    \/ \E kind \in {"Freeze", "Activate"}, modules \in ModuleLists : Construct(kind, modules)
    \/ \E g \in 1..MaxGuards : Enter(g)
    \/ \E exc \in BOOLEAN : Exit(exc)
    \/ \E p \in Parameters, v \in BOOLEAN : SetFlag(p, v)

SpecScope == InitScope /\ [][NextScope]_vars

\* ------------------------------------------------- properties of the scopes
ParamSet(g) == Range(get_parameters(guards[g].modules))

\* C1: after a scope is exited, normally or by an error raised in its body,
\* every parameter of the guard has the flag it had before the scope was entered
\* (scopes that re-enter a guard already open are left aside).
C1_ExitRestoresPreScopeFlags ==
    (event.op = "exit" /\ ~event.re) =>
        \A p \in ParamSet(event.g) : requires_grad[p] = event.pre[p]

\* C8: the list of flags a guard restores on exit is the list of the flags as
\* they were when its scope was entered: every open scope's guard holds the
\* snapshot of the flags seen at that entry (entries of a guard already open
\* are left aside).
C8_SnapshotTakenAtEntry ==
    \A i \in DOMAIN open :
      ~open[i].re =>
        guards[open[i].g].param_states = snapshot(open[i].pre, guards[open[i].g].modules)

\* C9: scopes over the same parameters nest in push/pop order: after the exit
\* of an inner scope every flag has the value the enclosing scope forced, and
\* after the exit of a scope that enclosed another every flag has its value
\* from before that outer scope was entered (the two scopes are those of two
\* different guard objects).
C9_NestedScopesRestore ==
    (event.op = "exit" /\ ~event.re) =>
        /\ open /= <<>> =>
             LET outer == open[Len(open)].g
             IN ParamSet(outer) = ParamSet(event.g) =>
                  \A p \in ParamSet(event.g) :
                      requires_grad[p] = target(guards[outer].kind)
        /\ (open = <<>> /\ event.nested) =>
             \A p \in ParamSet(event.g) : requires_grad[p] = event.pre[p]

\* What __exit__ does write: the flags listed at construction, whatever the
\* flags were at entry and however the body ended.
ExitRestoresConstructionSnapshot ==
    event.op = "exit" =>
        snapshot(requires_grad, guards[event.g].modules) = guards[event.g].param_states

\* ======================================================== lambda_return
\* Numbers are exact rationals <<numerator, denominator>>, denominator > 0,
\* in lowest terms.
Abs(n) == IF n < 0 THEN -n ELSE n

RECURSIVE GCD(_, _)
GCD(a, b) == IF b = 0 THEN a ELSE GCD(b, a % b)

Norm(n, d) == LET g == GCD(Abs(n), d) IN <<n \div g, d \div g>>
Rat(n) == <<n, 1>>
RAdd(x, y) == Norm(x[1] * y[2] + y[1] * x[2], x[2] * y[2])
RSub(x, y) == Norm(x[1] * y[2] - y[1] * x[2], x[2] * y[2])
RMul(x, y) == Norm(x[1] * y[1], x[2] * y[2])
Zero == Rat(0)
One == Rat(1)

\* The arguments of the call that are tried.
RewardVals == {Rat(1), Rat(-2)}
ValueVals == {Rat(2), Rat(-1)}
BootstrapVals == {Rat(3), Rat(0)}
DiscountVals == {<<1, 2>>, <<9, 10>>, One}
LambdaVals == {Zero, <<1, 2>>, One}

SeqsOf(S, n) == [1..n -> S]

\* An elementwise operation on two tensors of one dimension, with torch's
\* broadcasting of a dimension of size 1.
BroadcastLen(a, b) == IF Len(a) = 1 THEN Len(b) ELSE Len(a)
At(a, i) == IF Len(a) = 1 THEN a[1] ELSE a[i]
TMul(a, b) == [i \in 1..BroadcastLen(a, b) |-> RMul(At(a, i), At(b, i))]
TAdd(a, b) == [i \in 1..BroadcastLen(a, b) |-> RAdd(At(a, i), At(b, i))]
TScale(a, c) == [i \in 1..Len(a) |-> RMul(a[i], c)]

\* torch.cat([value_pred[1:], bootstrap[None]], 0)
next_values_of(value_pred, bootstrap) == From(value_pred, 1) \o <<bootstrap>>

\* discount * torch.ones_like(imged_reward)
discount_tensor_of(discount, imged_reward) == [i \in 1..Len(imged_reward) |-> discount]

\* imged_reward + discount_tensor * next_values * (1 - lambda_)
inputs_NoBlend(imged_reward, discount_tensor, next_values, lambda_) ==
    TAdd(imged_reward, TMul(discount_tensor, next_values))

inputs_of(imged_reward, discount_tensor, next_values, lambda_) ==
    TAdd(imged_reward, TScale(TMul(discount_tensor, next_values), RSub(One, lambda_)))

\* inp + disc*lambda_*last
last_NoLambda(inp, disc, lambda_, last) == RAdd(inp, RMul(disc, last))

last_of(inp, disc, lambda_, last) == RAdd(inp, RMul(RMul(disc, lambda_), last))

\* reversed(range(len(inputs))), as 1-based indices
indices_of(inputs) == [k \in 1..Len(inputs) |-> Len(inputs) + 1 - k]

\* list(reversed(outputs))
reversed_NotReversed(outputs) == outputs

reversed_of(outputs) == Reverse(outputs)

\* torch.stack(tensors, 0) refuses an empty list (RuntimeError).
stack_raises(tensors) == tensors = <<>>

InitLambda ==
    /\ requires_grad = [p \in Parameters |-> TRUE]
    /\ guards = <<>>
    /\ open = <<>>
    /\ event = NoEvent
    /\ nsets = 0
    /\ im = IdleImagine
    /\ \E n \in 0..MaxN :
       \E R \in SeqsOf(RewardVals, n), V \in SeqsOf(ValueVals, n),
          b \in BootstrapVals, g \in DiscountVals, l \in LambdaVals :
          lr = [pc |-> "call", imged_reward |-> R, value_pred |-> V, bootstrap |-> b,
                discount |-> g, lambda_ |-> l, next_values |-> <<>>,
                discount_tensor |-> <<>>, inputs |-> <<>>, last |-> Zero,
                indices |-> <<>>, outputs |-> <<>>, returns |-> <<>>]

\* Lines 101-106: the targets, last = bootstrap, the reversed indices.
LR_Setup ==
    /\ lr.pc = "call"
    /\ LET nv == next_values_of(lr.value_pred, lr.bootstrap)
           dt == discount_tensor_of(lr.discount, lr.imged_reward)
           inp == inputs_of(lr.imged_reward, dt, nv, lr.lambda_)
       IN lr' = [lr EXCEPT !.pc = "loop", !.next_values = nv, !.discount_tensor = dt,
                           !.inputs = inp, !.last = lr.bootstrap,
                           !.indices = indices_of(inp), !.outputs = <<>>]
    /\ UNCHANGED <<requires_grad, guards, open, event, nsets, im>>

\* Lines 107-110: one turn of the loop over the reversed indices.
LR_Loop ==
    /\ lr.pc = "loop"
    /\ lr.indices /= <<>>
    /\ LET index == Head(lr.indices)
           new == last_of(lr.inputs[index], lr.discount_tensor[index], lr.lambda_, lr.last)
       IN lr' = [lr EXCEPT !.indices = Tail(lr.indices), !.last = new,
                           !.outputs = Append(lr.outputs, new)]
    /\ UNCHANGED <<requires_grad, guards, open, event, nsets, im>>

\* Lines 111-114: the outputs in forward order, stacked and returned.
LR_Return ==
    /\ lr.pc = "loop"
    /\ lr.indices = <<>>
    /\ LET outs == reversed_of(lr.outputs)
       IN \/ /\ stack_raises(outs)
             /\ lr' = [lr EXCEPT !.pc = "raised", !.outputs = outs]
          \/ /\ ~stack_raises(outs)
             /\ lr' = [lr EXCEPT !.pc = "returned", !.outputs = outs, !.returns = outs]
    /\ UNCHANGED <<requires_grad, guards, open, event, nsets, im>>

NextLambda == LR_Setup \/ LR_Loop \/ LR_Return

SpecLambda == InitLambda /\ [][NextLambda]_vars

\* --------------------------------------------- properties of lambda_return
N == Len(lr.imged_reward)

RECURSIVE RPow(_, _)
RPow(x, k) == IF k = 0 THEN One ELSE RMul(x, RPow(x, k - 1))

\* sum over j = i..n of discount^(j-i) * R[j], indices 1-based
RECURSIVE DiscountedSum(_, _)
DiscountedSum(i, j) ==
    IF j > N THEN Zero
    ELSE RAdd(RMul(RPow(lr.discount, j - i), lr.imged_reward[j]), DiscountedSum(i, j + 1))

MonteCarlo(i) ==
    RAdd(DiscountedSum(i, i), RMul(RPow(lr.discount, N + 1 - i), lr.bootstrap))

\* next_values[i] of the specification: V[i+1], and the bootstrap at the end.
NextValue(i) == IF i < N THEN lr.value_pred[i + 1] ELSE lr.bootstrap

\* The lambda-return of step i, by its forward definition:
\* G[i] = R[i] + discount * ((1 - lambda) * next_values[i] + lambda * G[i+1]),
\* with the bootstrap standing for G past the end.
RECURSIVE LambdaReturnAt(_)
LambdaReturnAt(i) ==
    IF i > N THEN lr.bootstrap
    ELSE RAdd(lr.imged_reward[i],
              RMul(lr.discount,
                   RAdd(RMul(RSub(One, lr.lambda_), NextValue(i)),
                        RMul(lr.lambda_, LambdaReturnAt(i + 1)))))

\* C2: with lambda_ = 1 the return of every step is the discounted Monte Carlo
\* return: G[i] = sum_{j>=i} discount^(j-i) R[j] + discount^(N-i) bootstrap,
\* whatever the value predictions are.
C2_LambdaOneIsMonteCarlo ==
    (lr.pc = "returned" /\ lr.lambda_ = One) =>
        \A i \in 1..N : lr.returns[i] = MonteCarlo(i)

C2_Witness ==
    /\ lr.pc = "returned" /\ lr.lambda_ = One /\ N >= 2
    /\ lr.discount = <<9, 10>>
    /\ lr.returns[1] = MonteCarlo(1) /\ lr.returns[1] /= lr.returns[N]

\* C3: with lambda_ = 0 the return of every step is the one-step bootstrap
\* R[i] + discount * next_values[i].
C3_LambdaZeroIsOneStep ==
    (lr.pc = "returned" /\ lr.lambda_ = Zero) =>
        \A i \in 1..N :
            lr.returns[i] = RAdd(lr.imged_reward[i], RMul(lr.discount, NextValue(i)))

C3_Witness ==
    /\ lr.pc = "returned" /\ lr.lambda_ = Zero /\ N >= 2
    /\ lr.bootstrap /= Zero /\ lr.discount = <<1, 2>>
    /\ lr.returns[N] = RAdd(lr.imged_reward[N], RMul(lr.discount, lr.bootstrap))

\* C4: the returned sequence has as many steps as the rewards and is in
\* forward time order: entry i is the lambda-return of step i.
C4_SameLengthForwardOrder ==
    lr.pc = "returned" =>
        /\ Len(lr.returns) = N
        /\ \A i \in 1..N : lr.returns[i] = LambdaReturnAt(i)

C4_Witness ==
    /\ lr.pc = "returned" /\ N >= 3 /\ lr.lambda_ = <<1, 2>>
    /\ Len(lr.returns) = N
    /\ lr.returns[1] /= lr.returns[N]

\* ======================================================== imagine_ahead
\* A tensor's size is a sequence of dimensions. A tensor's value is a term:
\* a record naming the operation that produced it and its operands. The
\* policy and the transition model are the caller's: their layers are
\* uninterpreted operations, taken to accept what they are given.
RECURSIVE Prod(_)
Prod(dims) == IF dims = <<>> THEN 1 ELSE Head(dims) * Prod(Tail(dims))

\* The leading dimensions of the inputs that are tried, and the sizes of the
\* inputs built on them (state features last, belief features last).
LeadingDims == {<<2>>, <<4>>, <<3, 2>>, <<2, 2>>, <<2, 3, 2>>}
StateSize(lead) == lead \o <<3>>
BeliefSize(lead) == lead \o <<5>>

\* def flatten(x): return x.view([-1]+list(x.size()[2:]))
\* view infers the -1 from the number of elements.
flatten(size) ==
    LET rest == From(size, 2)
    IN <<Prod(size) \div Prod(rest)>> \o rest

Input(name) == [op |-> "input", name |-> name]
flat(x) == [op |-> "view", a |-> x]
empty == [op |-> "empty"]
detach(x) == [op |-> "detach", a |-> x]

\* [torch.empty(0)] * T
placeholders(T) == [i \in 1..T |-> empty]

\* policy.get_action(beliefs[t].detach(), _state.detach())
policy_args(beliefs, prior_states, t) ==
    [belief |-> detach(beliefs[t + 1]), state |-> detach(prior_states[t + 1])]

get_action(args) == [op |-> "get_action", a |-> args.belief, b |-> args.state]

\* transition_model.rnn(act_fn(fc_embed_state_action(cat([_state, actions], 1))), belief)
belief_of(state, actions, belief) ==
    [op |-> "rnn",
     a |-> [op |-> "act_fn",
            a |-> [op |-> "fc_embed_state_action",
                   a |-> [op |-> "cat", a |-> state, b |-> actions]]],
     b |-> belief]

\* torch.cat(..., dim=1) needs tensors of at least two dimensions (IndexError).
cat_raises(size) == Len(size) < 2

\* fc_state_prior(act_fn(fc_embed_belief_prior(belief))), before the chunk
prior_of(belief) ==
    [op |-> "fc_state_prior",
     a |-> [op |-> "act_fn", a |-> [op |-> "fc_embed_belief_prior", a |-> belief]]]

\* torch.chunk(x, 2, dim=1): the two halves
mean_of(belief) == [op |-> "chunk0", a |-> prior_of(belief)]
raw_std_dev_of(belief) == [op |-> "chunk1", a |-> prior_of(belief)]

\* F.softplus(_prior_std_dev) + transition_model.min_std_dev
std_dev_of(belief) ==
    [op |-> "add", a |-> [op |-> "softplus", a |-> raw_std_dev_of(belief)],
     b |-> [op |-> "min_std_dev"]]

\* prior_means[t + 1] + prior_std_devs[t + 1] * torch.randn_like(prior_means[t + 1])
sample_of(mean, std_dev, noise) ==
    [op |-> "add", a |-> mean,
     b |-> [op |-> "mul", a |-> std_dev, b |-> [op |-> "randn_like", seed |-> noise]]]

\* The draws of torch.randn_like that are told apart.
NoiseVals == {"n1", "n2"}

\* beliefs[1:], prior_states[1:], ...: what is stacked and returned
tail_WithInitial(list) == list

tail_of(list) == From(list, 1)

\* The time step whose entries step t of the loop reads.
read_index_Next(t) == t + 1

read_index(t) == t

InitImagine ==
    /\ requires_grad = [p \in Parameters |-> TRUE]
    /\ guards = <<>>
    /\ open = <<>>
    /\ event = NoEvent
    /\ nsets = 0
    /\ lr = IdleLambda
    /\ \E T \in 0..MaxT, lead \in LeadingDims :
          im = [pc |-> "call", planning_horizon |-> T,
                prev_state_size |-> StateSize(lead),
                prev_belief_size |-> BeliefSize(lead),
                state_size |-> <<>>, belief_size |-> <<>>,
                beliefs |-> <<>>, prior_states |-> <<>>, prior_means |-> <<>>,
                prior_std_devs |-> <<>>, t |-> 0, steps |-> <<>>,
                imagined_traj |-> <<>>]

\* Lines 64-72: flatten the inputs, allocate the four lists, store the inputs
\* at index 0 (an IndexError when the lists are empty).
IM_Setup ==
    /\ im.pc = "call"
    /\ LET T == im.planning_horizon
           filled == [im EXCEPT !.state_size = flatten(im.prev_state_size),
                               !.belief_size = flatten(im.prev_belief_size),
                               !.beliefs = placeholders(T),
                               !.prior_states = placeholders(T),
                               !.prior_means = placeholders(T),
                               !.prior_std_devs = placeholders(T)]
       IN \/ /\ T = 0
             /\ im' = [filled EXCEPT !.pc = "raised"]
          \/ /\ T > 0
             /\ im' = [filled EXCEPT !.pc = "loop",
                                     !.beliefs[1] = flat(Input("prev_belief")),
                                     !.prior_states[1] = flat(Input("prev_state"))]
    /\ UNCHANGED <<requires_grad, guards, open, event, nsets, lr>>

\* Lines 75-90: one turn of the loop, for t = im.t. The lists are 1-based
\* here: the entry of time step t is at index t + 1.
IM_Step(noise) ==
    /\ im.pc = "loop"
    /\ im.t < im.planning_horizon - 1
    /\ LET t == im.t
           r == read_index(t)
           _state == im.prior_states[r + 1]
           args == policy_args(im.beliefs, im.prior_states, r)
           actions == get_action(args)
           belief == belief_of(_state, actions, im.beliefs[r + 1])
           mean == mean_of(belief)
           std_dev == std_dev_of(belief)
           state == sample_of(mean, std_dev, noise)
       IN \/ /\ t = 0 /\ cat_raises(im.state_size)
             /\ im' = [im EXCEPT !.pc = "raised",
                                 !.steps = Append(im.steps, [t |-> t, args |-> args])]
          \/ /\ ~(t = 0 /\ cat_raises(im.state_size))
             /\ im' = [im EXCEPT !.beliefs[t + 2] = belief,
                                 !.prior_means[t + 2] = mean,
                                 !.prior_std_devs[t + 2] = std_dev,
                                 !.prior_states[t + 2] = state,
                                 !.t = t + 1,
                                 !.steps = Append(im.steps, [t |-> t, args |-> args])]
    /\ UNCHANGED <<requires_grad, guards, open, event, nsets, lr>>

\* Lines 93-95: stack the four lists without their first entries and return.
IM_Return ==
    /\ im.pc = "loop"
    /\ im.t >= im.planning_horizon - 1
    /\ LET traj == <<tail_of(im.beliefs), tail_of(im.prior_states),
                     tail_of(im.prior_means), tail_of(im.prior_std_devs)>>
       IN \/ /\ \E k \in 1..4 : stack_raises(traj[k])
             /\ im' = [im EXCEPT !.pc = "raised"]
          \/ /\ \A k \in 1..4 : ~stack_raises(traj[k])
             /\ im' = [im EXCEPT !.pc = "returned", !.imagined_traj = traj]
    /\ UNCHANGED <<requires_grad, guards, open, event, nsets, lr>>

NextImagine ==
    \/ IM_Setup
    \/ \E noise \in NoiseVals : IM_Step(noise)
    \/ IM_Return

SpecImagine == InitImagine /\ [][NextImagine]_vars

\* --------------------------------------------- properties of imagine_ahead
Horizon == im.planning_horizon
Finished == im.pc \in {"returned", "raised"}

\* The entries the loop computed for time step k (1 <= k), from what the
\* loop's turn k-1 was given.
ComputedBelief(k) ==
    belief_of(im.prior_states[k], get_action(im.steps[k].args), im.beliefs[k])

\* C5: with a horizon T >= 2 the four returned sequences have T-1 entries
\* each, entry k (0-based) being what the loop computed for time step k+1;
\* the flattened initial belief and state are not among them.
C5_TrajectoryIsStepsOneToTMinusOne ==
    (im.pc = "returned" /\ Horizon >= 2) =>
        /\ \A q \in 1..4 : Len(im.imagined_traj[q]) = Horizon - 1
        /\ \A k \in 1..(Horizon - 1) :
              /\ im.steps[k].t = k - 1
              /\ im.imagined_traj[1][k] = ComputedBelief(k)
              /\ im.imagined_traj[1][k] = im.beliefs[k + 1]
              /\ im.imagined_traj[2][k] = im.prior_states[k + 1]
              /\ im.imagined_traj[3][k] = mean_of(ComputedBelief(k))
              /\ im.imagined_traj[4][k] = std_dev_of(ComputedBelief(k))
              /\ im.imagined_traj[1][k] /= flat(Input("prev_belief"))
              /\ im.imagined_traj[2][k] /= flat(Input("prev_state"))

C5_Witness ==
    /\ im.pc = "returned" /\ Horizon >= 3
    /\ Len(im.imagined_traj[1]) = Horizon - 1
    /\ im.imagined_traj[2][1] /= im.imagined_traj[2][2]

\* C6: a call with horizon T = 1 ends without an error and returns four
\* empty sequences.
C6_HorizonOneReturnsEmpty ==
    (Finished /\ Horizon = 1) =>
        /\ im.pc = "returned"
        /\ im.imagined_traj = <<<<>>, <<>>, <<>>, <<>>>>

\* C7: before the loop the initial belief and state, of size [d1, ..., dk, F]
\* for any k >= 1, are reshaped to [d1*...*dk, F].
Collapsed(size) ==
    <<Prod(SubSeq(size, 1, Len(size) - 1)), size[Len(size)]>>

C7_FlattenCollapsesLeadingDims ==
    im.pc = "loop" =>
        /\ im.state_size = Collapsed(im.prev_state_size)
        /\ im.belief_size = Collapsed(im.prev_belief_size)

\* What flatten does: the first two dimensions are merged, the rest kept.
FlattenMergesFirstTwoDims ==
    im.pc \in {"loop", "returned", "raised"} =>
        /\ im.state_size = <<Prod(SubSeq(im.prev_state_size, 1, 2))>>
                             \o From(im.prev_state_size, 2)
        /\ Len(im.prev_state_size) = 3 => im.state_size = Collapsed(im.prev_state_size)

\* A term mentions a placeholder of the lists.
RECURSIVE MentionsEmpty(_)
MentionsEmpty(x) ==
    \/ x.op = "empty"
    \/ \E f \in DOMAIN x \ {"op", "name", "seed"} : MentionsEmpty(x[f])

\* C10: the rollout is a sequential chain. The policy is asked once per turn,
\* turn t (t = 0, 1, ...) with the detached belief and state of time step t;
\* the entries of step 0 are the flattened inputs; belief t+1 comes from state
\* t, that action and belief t; mean, std-dev and state t+1 come from belief
\* t+1; nothing computed reads a placeholder; a call that returns made T-1
\* turns.
C10_SequentialChain ==
    im.pc \in {"loop", "returned", "raised"} /\ Horizon >= 1 =>
        /\ im.beliefs[1] = flat(Input("prev_belief"))
        /\ im.prior_states[1] = flat(Input("prev_state"))
        /\ im.t <= Len(im.steps) /\ Len(im.steps) <= im.t + 1
        /\ (im.pc /= "raised" => Len(im.steps) = im.t)
        /\ (im.pc = "returned" => im.t = Horizon - 1)
        /\ \A k \in 1..Len(im.steps) :
              /\ im.steps[k].t = k - 1
              /\ im.steps[k].args =
                    [belief |-> detach(im.beliefs[k]), state |-> detach(im.prior_states[k])]
              /\ ~MentionsEmpty(im.steps[k].args.belief)
              /\ ~MentionsEmpty(im.steps[k].args.state)
        /\ \A k \in 1..im.t :
              /\ im.beliefs[k + 1] = ComputedBelief(k)
              /\ im.prior_means[k + 1] = mean_of(im.beliefs[k + 1])
              /\ im.prior_std_devs[k + 1] = std_dev_of(im.beliefs[k + 1])
              /\ \E noise \in NoiseVals :
                    im.prior_states[k + 1] =
                        sample_of(im.prior_means[k + 1], im.prior_std_devs[k + 1], noise)
              /\ ~MentionsEmpty(im.beliefs[k + 1])
              /\ ~MentionsEmpty(im.prior_states[k + 1])

C10_Witness ==
    /\ im.pc = "returned" /\ Horizon >= 3
    /\ Len(im.steps) = Horizon - 1
    /\ im.steps[2].args.belief = detach(im.beliefs[2])
    /\ im.beliefs[3] = ComputedBelief(2)

====
